---- MODULE Spec2Model ----
(***************************************************************************)
(* Room lifecycle manager of the Pong Force matchmaking server             *)
(* (src/matchmaking_server.py): the registry active_rooms, the RoomManager *)
(* operations that mutate it under rooms_lock, the name de-duplication     *)
(* loop of join_room, the snapshot file and the periodic cleanup.          *)
(*                                                                         *)
(* Timestamps are whole seconds: datetime.now().isoformat() followed by    *)
(* datetime.fromisoformat() gives back the same instant, and only          *)
(* differences of instants are ever compared.                              *)
(***************************************************************************)
EXTENDS Integers, Sequences, FiniteSets, TLC

\* ------------------------------------------------------------ configuration

\* ROOM_TIMEOUT = 600 (seconds of inactivity).
ROOM_TIMEOUT == 600

\* MAX_ROOMS = 1000 in the source; scaled down to 2 so that a full registry
\* is a reachable state.  Only the comparison len(active_rooms) >= MAX_ROOMS
\* reads it.
MAX_ROOMS == 2

\* MAX_PLAYERS_PER_ROOM = 2.
MAX_PLAYERS_PER_ROOM == 2

\* The literal 100 of "if suffix > 100" in join_room.
SUFFIX_LIMIT == 100

\* ------------------------------------------------------------------ inputs

\* Room codes and player names a client may send (both passed the routes'
\* "not room_code or not player_name" validation: they are non-empty).
Codes == {"ABCD", "XYZ"}
Names == {"Alice", "Bob"}

\* host_info as built by the create_room route: ip, port, public_ip.
HostInfos == {[ip |-> "192.168.1.10", port |-> 5555, public_ip |-> "203.0.113.7"]}

\* Values of the "status" field of a POST /api/update_room body: the three
\* statuses the source names, one it does not, and the empty string (falsy).
StatusArgs == {"waiting", "in_progress", "completed", "paused", ""}

\* Readings of datetime.now(): the start, one second later, and the first
\* instant at which a room stamped at 0 is older than ROOM_TIMEOUT (a room
\* stamped at 1 is then exactly ROOM_TIMEOUT old).
Times == {0, 1, ROOM_TIMEOUT + 1}

\* Values of uuid.uuid4().hex[:4] (four hexadecimal digits).
HexTokens == {"3f9a", "c0de"}

\* ------------------------------------------------------------------- state

VARIABLES
    active_rooms,   \* dict room_code -> room (function on the live codes)
    now,            \* current reading of datetime.now()
    disk,           \* contents of ROOMS_FILE
    saved,          \* number of save_rooms() calls made by the last operation
    result,         \* last call: [op, args, ret]
    rooms_lock,     \* holder of rooms_lock, or Free
    pc,             \* per request thread: the statement it is about to run
    frame,          \* per request thread: its request and local variables
    sink,           \* what open(ROOMS_FILE, 'w') and json.dump meet on this host
    users_lock      \* holder of users_lock, or Free

vars == <<active_rooms, now, disk, saved, result, rooms_lock, pc, frame, sink, users_lock>>

\* The request threads of app.run(threaded=True) that are followed statement
\* by statement in SpecThreads.
Threads == {"t1", "t2"}

\* The thread started on cleanup_task.
Reaper == "reaper"

AllThreads == Threads \cup {Reaper}

Free == "free"

NoFrame == [op |-> "none"]

\* No request is in flight and cleanup_task is in time.sleep(60).
threads_idle ==
    /\ rooms_lock = Free
    /\ users_lock = Free
    /\ pc = [t \in AllThreads |-> "idle"]
    /\ frame = [t \in AllThreads |-> NoFrame]

\* What a call that runs from "with rooms_lock" to its return leaves of the
\* locks, of the other threads and of the host's file system.
whole_call == UNCHANGED <<rooms_lock, pc, frame, sink, users_lock>>

\* The error strings of the source.
ErrCapacity == "Server at maximum capacity"
ErrConflict == "Room code already exists"
ErrNotFound == "Room not found"
ErrNotAccepting == "Room is not accepting players"
ErrFull == "Room is full"
ErrMissing == "Missing room_code or status"
NoError == ""

EmptyRooms == [c \in {} |-> 0]

\* active_rooms[room_code] = room
Put(rooms, room_code, room) ==
    [c \in (DOMAIN rooms) \cup {room_code} |-> IF c = room_code THEN room ELSE rooms[c]]

\* del active_rooms[code] for every code in S
Remove(rooms, S) == [c \in (DOMAIN rooms) \ S |-> rooms[c]]

\* x in list
InList(x, list) == \E i \in 1..Len(list) : list[i] = x

\* json.dump(rooms, f, indent=2) into a freshly truncated ROOMS_FILE.  The
\* registry's keys are the strings of Codes and its values are built from
\* JSON strings, numbers and lists, so the document holds exactly the
\* registry: the same keys, the same rooms.
json_dump(rooms) == [exists |-> TRUE, rooms |-> rooms]

\* ROOMS_FILE after open(ROOMS_FILE, 'w') truncated it and json.dump wrote
\* only a proper prefix of the document: not a JSON text.
torn_file == [exists |-> TRUE, rooms |-> EmptyRooms, torn |-> TRUE]

\* What the host's file system does to a write: it takes it ("ok"), open()
\* raises and the file stays as it was ("denied"), or the write raises after
\* the truncation ("full").
Sinks == {"ok", "denied", "full"}

\* save_rooms() writing the registry as it was before the mutation.
save_rooms_stale ==
    /\ disk' = IF sink = "ok" THEN json_dump(active_rooms)
               ELSE IF sink = "denied" THEN disk ELSE torn_file
    /\ saved' = 1

\* save_rooms(): json.dump(active_rooms) into ROOMS_FILE, after the mutation;
\* an exception of open() or json.dump is logged and swallowed.
save_rooms ==
    /\ disk' = IF sink = "ok" THEN json_dump(active_rooms')
               ELSE IF sink = "denied" THEN disk ELSE torn_file
    /\ saved' = 1

\* load_rooms(): the rooms of ROOMS_FILE; {} when there is no file or when
\* json.load raises.
load_rooms(file) ==
    IF ~file.exists THEN EmptyRooms
    ELSE IF "torn" \in DOMAIN file THEN EmptyRooms
    ELSE file.rooms

\* A path that returns without calling save_rooms().
no_save ==
    /\ UNCHANGED disk
    /\ saved' = 0

\* ------------------------------------------------------------- create_room

\* create_room without its "room_code in active_rooms" return.
create_room_checks_no_conflict(rooms, room_code) ==
    IF Cardinality(DOMAIN rooms) >= MAX_ROOMS THEN ErrCapacity
    ELSE NoError

\* create_room with the capacity tested by ">" instead of ">=".
create_room_checks_overfull(rooms, room_code) ==
    IF Cardinality(DOMAIN rooms) > MAX_ROOMS THEN ErrCapacity
    ELSE IF room_code \in DOMAIN rooms THEN ErrConflict
    ELSE NoError

\* The two early returns of create_room, in the order of the source.
create_room_checks(rooms, room_code) ==
    IF Cardinality(DOMAIN rooms) >= MAX_ROOMS THEN ErrCapacity
    ELSE IF room_code \in DOMAIN rooms THEN ErrConflict
    ELSE NoError

\* The dict stored by create_room.
new_room(player_name, host_info, t) ==
    [host |-> [name |-> player_name, ip |-> host_info.ip,
               port |-> host_info.port, public_ip |-> host_info.public_ip],
     players |-> <<player_name>>,
     status |-> "waiting",
     created_at |-> t,
     last_activity |-> t,
     max_players |-> MAX_PLAYERS_PER_ROOM]

create_room(room_code, player_name, host_info) ==
    LET err == create_room_checks(active_rooms, room_code)
        args == [room_code |-> room_code, player_name |-> player_name,
                 host_info |-> host_info]
    IN  /\ IF err # NoError
           THEN /\ UNCHANGED active_rooms
                /\ no_save
                /\ result' = [op |-> "create_room", args |-> args,
                              ret |-> [success |-> FALSE, error |-> err]]
           ELSE /\ active_rooms' = Put(active_rooms, room_code,
                                       new_room(player_name, host_info, now))
                /\ save_rooms
                /\ result' = [op |-> "create_room", args |-> args,
                              ret |-> [success |-> TRUE, room_code |-> room_code,
                                       message |-> "Room created successfully"]]
        /\ UNCHANGED now
        /\ whole_call

\* --------------------------------------------------------------- join_room

\* join_room without its "Room is full" return.
join_room_checks_no_capacity(rooms, room_code) ==
    IF room_code \notin DOMAIN rooms THEN ErrNotFound
    ELSE IF rooms[room_code].status # "waiting" THEN ErrNotAccepting
    ELSE NoError

\* join_room without its "Room is not accepting players" return.
join_room_checks_no_status(rooms, room_code) ==
    IF room_code \notin DOMAIN rooms THEN ErrNotFound
    ELSE IF Len(rooms[room_code].players) >= rooms[room_code].max_players THEN ErrFull
    ELSE NoError

\* join_room with the capacity test before the status test.
join_room_checks_swapped(rooms, room_code) ==
    IF room_code \notin DOMAIN rooms THEN ErrNotFound
    ELSE IF Len(rooms[room_code].players) >= rooms[room_code].max_players THEN ErrFull
    ELSE IF rooms[room_code].status # "waiting" THEN ErrNotAccepting
    ELSE NoError

\* The three early returns of join_room, in the order of the source.
join_room_checks(rooms, room_code) ==
    IF room_code \notin DOMAIN rooms THEN ErrNotFound
    ELSE IF rooms[room_code].status # "waiting" THEN ErrNotAccepting
    ELSE IF Len(rooms[room_code].players) >= rooms[room_code].max_players THEN ErrFull
    ELSE NoError

\* The while loop of join_room: the set of values final_name may have when
\* the loop ends (one value, or any uuid token after the break).
RECURSIVE name_loop(_, _, _, _)
name_loop(players, original_name, final_name, suffix) ==
    IF ~InList(final_name, players) THEN {final_name}
    ELSE IF suffix + 1 > SUFFIX_LIMIT
         THEN {original_name \o "_" \o h : h \in HexTokens}
         ELSE name_loop(players, original_name,
                        original_name \o "_" \o ToString(suffix), suffix + 1)

\* join_room appending the requested name as it is.
resolve_name_unchanged(players, player_name) == {player_name}

\* join_room with "if" in place of "while": one suffix is tried, unchecked.
resolve_name_once(players, player_name) ==
    IF InList(player_name, players) THEN {player_name \o "_" \o ToString(1)}
    ELSE {player_name}

\* join_room with the suffix counter started at 2.
resolve_name_from_two(players, player_name) ==
    name_loop(players, player_name, player_name, 2)

\* final_name for a requested player_name and the room's players.
resolve_name(players, player_name) == name_loop(players, player_name, player_name, 1)

\* The start of the game tested with ">" instead of ">=".
status_after_join_late(room) ==
    IF Len(room.players) > room.max_players THEN "in_progress" ELSE room.status

\* "if len(room['players']) >= room['max_players']: room['status'] = 'in_progress'"
status_after_join(room) ==
    IF Len(room.players) >= room.max_players THEN "in_progress" ELSE room.status

\* A join that puts the new player first and dates the room from the join.
joined_room_as_new(room, final_name, t) ==
    LET inserted == [room EXCEPT !.players = <<final_name>> \o @,
                                 !.created_at = t,
                                 !.last_activity = t]
    IN  [inserted EXCEPT !.status = status_after_join(inserted)]

\* The room after a successful join of final_name at time t.
joined_room(room, final_name, t) ==
    LET appended == [room EXCEPT !.players = Append(@, final_name),
                                 !.last_activity = t]
    IN  [appended EXCEPT !.status = status_after_join(appended)]

join_room(room_code, player_name) ==
    LET err == join_room_checks(active_rooms, room_code)
        args == [room_code |-> room_code, player_name |-> player_name]
    IN  /\ IF err # NoError
           THEN /\ UNCHANGED active_rooms
                /\ no_save
                /\ result' = [op |-> "join_room", args |-> args,
                              ret |-> [success |-> FALSE, error |-> err]]
           ELSE \E final_name \in resolve_name(active_rooms[room_code].players, player_name) :
                LET room == joined_room(active_rooms[room_code], final_name, now)
                IN  /\ active_rooms' = Put(active_rooms, room_code, room)
                    /\ save_rooms
                    /\ result' = [op |-> "join_room", args |-> args,
                                  ret |-> [success |-> TRUE,
                                           host_ip |-> room.host.ip,
                                           host_port |-> room.host.port,
                                           public_ip |-> room.host.public_ip,
                                           players |-> room.players,
                                           status |-> room.status,
                                           player_name |-> final_name,
                                           name_changed |-> (final_name # player_name)]]
        /\ UNCHANGED now
        /\ whole_call

\* ------------------------------------------------------ update_room_status

\* RoomManager.update_room_status: stores the status it is given.
update_room_status(room_code, status) ==
    LET args == [room_code |-> room_code, status |-> status]
    IN  /\ IF room_code \notin DOMAIN active_rooms
           THEN /\ UNCHANGED active_rooms
                /\ no_save
                /\ result' = [op |-> "update_room_status", args |-> args,
                              ret |-> [success |-> FALSE, error |-> ErrNotFound]]
           ELSE /\ active_rooms' = [active_rooms EXCEPT
                                      ![room_code].status = status,
                                      ![room_code].last_activity = now]
                /\ save_rooms
                /\ result' = [op |-> "update_room_status", args |-> args,
                              ret |-> [success |-> TRUE]]
        /\ UNCHANGED now
        /\ whole_call

\* The /api/update_room route: rejects a falsy status, passes any other on.
update_room(room_code, status) ==
    IF status = ""
    THEN /\ UNCHANGED <<active_rooms, now>>
         /\ whole_call
         /\ no_save
         /\ result' = [op |-> "update_room",
                       args |-> [room_code |-> room_code, status |-> status],
                       ret |-> [success |-> FALSE, error |-> ErrMissing]]
    ELSE update_room_status(room_code, status)

\* -------------------------------------------------------------- close_room

close_room(room_code) ==
    LET args == [room_code |-> room_code]
    IN  /\ IF room_code \in DOMAIN active_rooms
           THEN /\ active_rooms' = Remove(active_rooms, {room_code})
                /\ save_rooms
                /\ result' = [op |-> "close_room", args |-> args,
                              ret |-> [success |-> TRUE]]
           ELSE /\ UNCHANGED active_rooms
                /\ no_save
                /\ result' = [op |-> "close_room", args |-> args,
                              ret |-> [success |-> FALSE, error |-> ErrNotFound]]
        /\ UNCHANGED now
        /\ whole_call

\* ------------------------------------------------- get_room_info, list_rooms

get_room_info(room_code) ==
    /\ result' = [op |-> "get_room_info", args |-> [room_code |-> room_code],
                  ret |-> IF room_code \in DOMAIN active_rooms
                          THEN [success |-> TRUE, room |-> active_rooms[room_code]]
                          ELSE [success |-> FALSE, error |-> ErrNotFound]]
    /\ no_save
    /\ UNCHANGED <<active_rooms, now>>
    /\ whole_call

list_rooms ==
    /\ result' = [op |-> "list_rooms", args |-> <<>>,
                  ret |-> [success |-> TRUE, rooms |-> active_rooms,
                           total |-> Cardinality(DOMAIN active_rooms)]]
    /\ no_save
    /\ UNCHANGED <<active_rooms, now>>
    /\ whole_call

\* -------------------------------------------------------- cleanup_old_rooms

\* The timeout tested with ">=" instead of ">".
is_inactive_inclusive(room, t) == t - room.last_activity >= ROOM_TIMEOUT

\* "(now - last_activity).total_seconds() > ROOM_TIMEOUT"
is_inactive(room, t) == t - room.last_activity > ROOM_TIMEOUT

\* The list to_remove built by the first loop of cleanup_old_rooms.
to_remove(rooms, t) == {code \in DOMAIN rooms : is_inactive(rooms[code], t)}

cleanup_old_rooms ==
    LET gone == to_remove(active_rooms, now)
    IN  /\ active_rooms' = Remove(active_rooms, gone)
        /\ IF gone # {} THEN save_rooms ELSE no_save
        /\ result' = [op |-> "cleanup_old_rooms", args |-> [now |-> now],
                      ret |-> Cardinality(gone)]
        /\ UNCHANGED now
        /\ whole_call

\* ------------------------------------------------------------------- clock

\* Time passes between two calls.
Tick ==
    /\ \E t \in Times : t > now /\ now' = t
    /\ UNCHANGED <<active_rooms, disk, saved, result>>
    /\ whole_call

\* ----------------------------------------------------------- specification

\* load_rooms() with no ROOMS_FILE: an empty registry.
Init ==
    /\ now = 0
    /\ disk = [exists |-> FALSE, rooms |-> EmptyRooms]
    /\ active_rooms = load_rooms(disk)
    /\ saved = 0
    /\ result = [op |-> "load_rooms", args |-> <<>>, ret |-> 0]
    /\ threads_idle
    /\ sink = "ok"

Next ==
    \/ \E room_code \in Codes, player_name \in Names, host_info \in HostInfos :
           create_room(room_code, player_name, host_info)
    \/ \E room_code \in Codes, player_name \in Names : join_room(room_code, player_name)
    \/ \E room_code \in Codes, status \in StatusArgs : update_room(room_code, status)
    \/ \E room_code \in Codes : close_room(room_code)
    \/ \E room_code \in Codes : get_room_info(room_code)
    \/ list_rooms
    \/ cleanup_old_rooms
    \/ Tick

Spec == Init /\ [][Next]_vars

\* ------------------------------------------- name resolution on any roster

\* The longest roster drawn name by name (longer ones are drawn as chains).
MaxRoster == 3

\* Names found in a roster or asked for: two plain names and two that look
\* like the resolver's own output.
NamePool == {"Alice", "Bob", "Alice_1", "Alice_2"}

\* The rosters of distinct names of at most MaxRoster entries.
SmallRosters ==
    {r \in UNION {[1..k -> NamePool] : k \in 1..MaxRoster} :
        \A i, j \in 1..Len(r) : r[i] = r[j] => i = j}

\* "Alice", "Alice_1", ..., "Alice_<k-1>": the roster that makes the while
\* loop of join_room run k times for the request "Alice".
ChainRoster(k) ==
    [i \in 1..k |-> IF i = 1 THEN "Alice" ELSE "Alice" \o "_" \o ToString(i - 1)]

\* Every roster drawn: the small ones and the chains, up to the chain that
\* holds "Alice" and all of "Alice_1" .. "Alice_<SUFFIX_LIMIT>".
Rosters == SmallRosters \cup {ChainRoster(k) : k \in 1..(SUFFIX_LIMIT + 1)}

\* load_rooms() of a ROOMS_FILE holding one waiting room with one free slot
\* and the given roster (a file written under a larger MAX_PLAYERS_PER_ROOM).
loaded_room(roster) ==
    [host |-> [name |-> roster[1], ip |-> "192.168.1.10", port |-> 5555,
               public_ip |-> "203.0.113.7"],
     players |-> roster,
     status |-> "waiting",
     created_at |-> 0,
     last_activity |-> 0,
     max_players |-> Len(roster) + 1]

InitResolver ==
    /\ \E roster \in Rosters : active_rooms = [c \in {"XYZ"} |-> loaded_room(roster)]
    /\ now = 0
    /\ disk = [exists |-> TRUE, rooms |-> active_rooms]
    /\ saved = 0
    /\ result = [op |-> "load_rooms", args |-> <<>>, ret |-> 0]
    /\ threads_idle
    /\ sink = "ok"

NextResolver == \E room_code \in Codes, player_name \in NamePool : join_room(room_code, player_name)

SpecResolver == InitResolver /\ [][NextResolver]_vars

\* ------------------------------------------- requests, statement by statement

\* Two request threads, each serving one POST /api/join_room or one
\* GET /api/room/<code>.  The statements of RoomManager.join_room run one
\* at a time under rooms_lock; jsonify(result) of the routes runs after the
\* lock is released and reads the objects the result refers to: the dict
\* active_rooms[room_code] for get_room_info, the list room["players"] for
\* join_room.  (No room is deleted here, so a reference is modelled by the
\* room's code.)  jsonify reads the fields of the dict one after the other, in
\* an order and with a granularity that depend on the encoder in use; every
\* order of the two reads is a step sequence of this specification.

SetPc(t, label) == pc' = [pc EXCEPT ![t] = label]

\* The room dict a thread was handed by get_room_info or join_room: the room
\* of the registry while it is registered, and the dict as it was when it
\* was deleted from the registry afterwards.
Deref(t) ==
    IF "orphan" \in DOMAIN frame[t] THEN frame[t].orphan
    ELSE active_rooms[frame[t].room_code]

\* The frame of thread u once the rooms under the codes of gone have been
\* deleted: a thread that holds one of these dicts keeps it as it is now.
Detached(u, gone) ==
    IF /\ pc[u] \in {"join_jsonify", "get_jsonify"}
       /\ "orphan" \notin DOMAIN frame[u]
       /\ frame[u].room_code \in gone
    THEN frame[u] @@ [orphan |-> active_rooms[frame[u].room_code]]
    ELSE frame[u]

\* "with users_lock:" of track_user, called by the create_room and join_room
\* routes before they call the RoomManager.
TrackAcquire(t) ==
    /\ pc[t] = "track_lock"
    /\ users_lock = Free
    /\ users_lock' = t
    /\ SetPc(t, "track_body")
    /\ UNCHANGED <<active_rooms, now, sink, disk, saved, result, rooms_lock, frame>>

\* The body of track_user (user_database.append, save_data); leaving the
\* with block frees users_lock, and the route goes on to the RoomManager.
TrackBody(t) ==
    /\ pc[t] = "track_body"
    /\ users_lock' = Free
    /\ SetPc(t, IF frame[t].op = "join_room" THEN "join_lock" ELSE "create_lock")
    /\ UNCHANGED <<active_rooms, now, sink, disk, saved, result, rooms_lock, frame>>

\* The route join_room receives a request.
BeginJoin(t, room_code, player_name) ==
    /\ pc[t] = "idle"
    /\ SetPc(t, "track_lock")
    /\ frame' = [frame EXCEPT ![t] = [op |-> "join_room", room_code |-> room_code,
                                      player_name |-> player_name]]
    /\ UNCHANGED <<active_rooms, now, sink, users_lock, disk, saved, result, rooms_lock>>

\* "with rooms_lock:" of join_room.
JoinAcquire(t) ==
    /\ pc[t] = "join_lock"
    /\ rooms_lock = Free
    /\ rooms_lock' = t
    /\ SetPc(t, "join_checks")
    /\ UNCHANGED <<active_rooms, now, sink, users_lock, disk, saved, result, frame>>

\* The three checks, then the while loop that settles final_name.
JoinChecks(t) ==
    /\ pc[t] = "join_checks"
    /\ LET f == frame[t]
           err == join_room_checks(active_rooms, f.room_code)
       IN  IF err # NoError
           THEN /\ rooms_lock' = Free
                /\ SetPc(t, "done")
                /\ result' = [op |-> "join_room",
                              args |-> [room_code |-> f.room_code,
                                        player_name |-> f.player_name],
                              ret |-> [success |-> FALSE, error |-> err]]
                /\ saved' = 0
                /\ frame' = [frame EXCEPT ![t] =
                                 [op |-> "join_room", room_code |-> f.room_code,
                                  player_name |-> f.player_name,
                                  ret |-> [success |-> FALSE, error |-> err]]]
           ELSE /\ \E final_name \in resolve_name(active_rooms[f.room_code].players,
                                                 f.player_name) :
                       frame' = [frame EXCEPT ![t] =
                                    [op |-> "join_room", room_code |-> f.room_code,
                                     player_name |-> f.player_name,
                                     final_name |-> final_name]]
                /\ SetPc(t, "join_append")
                /\ UNCHANGED <<rooms_lock, result, saved>>
    /\ UNCHANGED <<active_rooms, now, sink, users_lock, disk>>

\* room["players"].append(final_name)
JoinAppend(t) ==
    /\ pc[t] = "join_append"
    /\ active_rooms' = [active_rooms EXCEPT
                           ![frame[t].room_code].players = Append(@, frame[t].final_name)]
    /\ SetPc(t, "join_stamp")
    /\ UNCHANGED <<now, sink, users_lock, disk, saved, result, rooms_lock, frame>>

\* join_room without its assignment to room["last_activity"].
JoinStamp_skipped(t) ==
    /\ pc[t] = "join_stamp"
    /\ SetPc(t, "join_status")
    /\ UNCHANGED <<active_rooms, now, sink, users_lock, disk, saved, result, rooms_lock,
                   frame>>

\* room["last_activity"] = datetime.now().isoformat()
JoinStamp(t) ==
    /\ pc[t] = "join_stamp"
    /\ active_rooms' = [active_rooms EXCEPT ![frame[t].room_code].last_activity = now]
    /\ SetPc(t, "join_status")
    /\ UNCHANGED <<now, sink, users_lock, disk, saved, result, rooms_lock, frame>>

\* if len(room["players"]) >= room["max_players"]: room["status"] = "in_progress"
JoinStatus(t) ==
    /\ pc[t] = "join_status"
    /\ active_rooms' = [active_rooms EXCEPT
                           ![frame[t].room_code].status =
                               status_after_join(active_rooms[frame[t].room_code])]
    /\ SetPc(t, "join_save")
    /\ UNCHANGED <<now, sink, users_lock, disk, saved, result, rooms_lock, frame>>

\* self.save_rooms()
JoinSave(t) ==
    /\ pc[t] = "join_save"
    /\ UNCHANGED active_rooms
    /\ save_rooms
    /\ SetPc(t, "join_return")
    /\ UNCHANGED <<now, sink, users_lock, result, rooms_lock, frame>>

\* The return of join_room: the dict holds the value of room["status"] and
\* the list room["players"] itself; leaving the with block frees the lock.
JoinReturn(t) ==
    /\ pc[t] = "join_return"
    /\ LET f == frame[t]
           room == active_rooms[f.room_code]
       IN  frame' = [frame EXCEPT ![t] =
                        [op |-> "join_room", room_code |-> f.room_code,
                         player_name |-> f.player_name, final_name |-> f.final_name,
                         host_ip |-> room.host.ip, host_port |-> room.host.port,
                         public_ip |-> room.host.public_ip, status |-> room.status]]
    /\ rooms_lock' = Free
    /\ SetPc(t, "join_jsonify")
    /\ UNCHANGED <<active_rooms, now, sink, users_lock, disk, saved, result>>

\* jsonify(result) of the join_room route: the list is read now.
JoinRespond(t) ==
    /\ pc[t] = "join_jsonify"
    /\ LET f == frame[t]
           ret == [success |-> TRUE, host_ip |-> f.host_ip,
                   host_port |-> f.host_port, public_ip |-> f.public_ip,
                   players |-> Deref(t).players,
                   status |-> f.status,
                   player_name |-> f.final_name,
                   name_changed |-> (f.final_name # f.player_name)]
       IN  /\ result' = [op |-> "join_room",
                         args |-> [room_code |-> f.room_code,
                                   player_name |-> f.player_name],
                         ret |-> ret]
           /\ frame' = [frame EXCEPT ![t] =
                            [op |-> "join_room", room_code |-> f.room_code,
                             player_name |-> f.player_name, ret |-> ret]]
    /\ SetPc(t, "done")
    /\ UNCHANGED <<active_rooms, now, sink, users_lock, disk, saved, rooms_lock>>

\* The route get_room receives a request.
BeginGet(t, room_code) ==
    /\ pc[t] = "idle"
    /\ SetPc(t, "get_lock")
    /\ frame' = [frame EXCEPT ![t] = [op |-> "get_room", room_code |-> room_code]]
    /\ UNCHANGED <<active_rooms, now, sink, users_lock, disk, saved, result, rooms_lock>>

\* "with rooms_lock:" of get_room_info.
GetAcquire(t) ==
    /\ pc[t] = "get_lock"
    /\ rooms_lock = Free
    /\ rooms_lock' = t
    /\ SetPc(t, "get_lookup")
    /\ UNCHANGED <<active_rooms, now, sink, users_lock, disk, saved, result, frame>>

\* The body of get_room_info: it returns the dict active_rooms[room_code]
\* itself, or the error; leaving the with block frees the lock.
GetLookup(t) ==
    /\ pc[t] = "get_lookup"
    /\ rooms_lock' = Free
    /\ IF frame[t].room_code \in DOMAIN active_rooms
       THEN /\ SetPc(t, "get_jsonify")
            /\ frame' = [frame EXCEPT ![t] =
                            [op |-> "get_room", room_code |-> frame[t].room_code,
                             read |-> {}, players |-> <<>>, status |-> ""]]
            /\ UNCHANGED result
       ELSE /\ SetPc(t, "done")
            /\ result' = [op |-> "get_room",
                          args |-> [room_code |-> frame[t].room_code],
                          ret |-> [success |-> FALSE, error |-> ErrNotFound]]
            /\ frame' = [frame EXCEPT ![t] =
                             [op |-> "get_room", room_code |-> frame[t].room_code,
                              ret |-> [success |-> FALSE, error |-> ErrNotFound]]]
    /\ UNCHANGED <<active_rooms, now, sink, users_lock, disk, saved>>

\* jsonify(result) of the get_room route reads room["players"].
GetReadPlayers(t) ==
    /\ pc[t] = "get_jsonify"
    /\ "players" \notin frame[t].read
    /\ frame' = [frame EXCEPT ![t].players = Deref(t).players,
                              ![t].read = @ \cup {"players"}]
    /\ UNCHANGED <<active_rooms, now, sink, users_lock, disk, saved, result, rooms_lock, pc>>

\* jsonify(result) of the get_room route reads room["status"].
GetReadStatus(t) ==
    /\ pc[t] = "get_jsonify"
    /\ "status" \notin frame[t].read
    /\ frame' = [frame EXCEPT ![t].status = Deref(t).status,
                              ![t].read = @ \cup {"status"}]
    /\ UNCHANGED <<active_rooms, now, sink, users_lock, disk, saved, result, rooms_lock, pc>>

\* The response of the get_room route leaves: what the client sees of the
\* room's players and status.
GetRespond(t) ==
    /\ pc[t] = "get_jsonify"
    /\ frame[t].read = {"players", "status"}
    /\ LET ret == [success |-> TRUE,
                   room |-> [players |-> frame[t].players, status |-> frame[t].status]]
       IN  /\ result' = [op |-> "get_room", args |-> [room_code |-> frame[t].room_code],
                         ret |-> ret]
           /\ frame' = [frame EXCEPT ![t] =
                            [op |-> "get_room", room_code |-> frame[t].room_code,
                             ret |-> ret]]
    /\ SetPc(t, "done")
    /\ UNCHANGED <<active_rooms, now, sink, users_lock, disk, saved, rooms_lock>>

\* ------------------------------------------- the other calls, step by step

\* A request or sweep of thread t ends with the given return value.
Finish(t, own, ret) ==
    /\ result' = [op |-> own.op, args |-> own, ret |-> ret]
    /\ SetPc(t, "done")

\* The frame of every thread when t ends its call with ret and the rooms
\* under the codes of gone are deleted.
FramesAfter(t, ret, gone) ==
    [u \in AllThreads |-> IF u = t THEN frame[t] @@ [ret |-> ret] ELSE Detached(u, gone)]

\* The route create_room receives a request.
BeginCreate(t, room_code, player_name, host_info) ==
    /\ pc[t] = "idle"
    /\ SetPc(t, "track_lock")
    /\ frame' = [frame EXCEPT ![t] = [op |-> "create_room", room_code |-> room_code,
                                      player_name |-> player_name,
                                      host_info |-> host_info]]
    /\ UNCHANGED <<active_rooms, now, sink, users_lock, disk, saved, result, rooms_lock>>

\* create_room entered without taking rooms_lock.
CreateAcquire_unlocked(t) ==
    /\ pc[t] = "create_lock"
    /\ SetPc(t, "create_checks")
    /\ UNCHANGED <<active_rooms, now, sink, users_lock, disk, saved, result, frame,
                   rooms_lock>>

\* "with rooms_lock:" of create_room.
CreateAcquire(t) ==
    /\ pc[t] = "create_lock"
    /\ rooms_lock = Free
    /\ rooms_lock' = t
    /\ SetPc(t, "create_checks")
    /\ UNCHANGED <<active_rooms, now, sink, users_lock, disk, saved, result, frame>>

\* create_room whose early returns leave without freeing the lock.
CreateChecks_holding(t) ==
    /\ pc[t] = "create_checks"
    /\ LET err == create_room_checks(active_rooms, frame[t].room_code)
           ret == [success |-> FALSE, error |-> err]
       IN  IF err # NoError
           THEN /\ Finish(t, frame[t], ret)
                /\ frame' = FramesAfter(t, ret, {})
                /\ saved' = 0
                /\ UNCHANGED rooms_lock
           ELSE /\ SetPc(t, "create_insert")
                /\ UNCHANGED <<rooms_lock, result, saved, frame>>
    /\ UNCHANGED <<active_rooms, now, sink, users_lock, disk>>

\* The two early returns of create_room; a return leaves the with block and
\* frees the lock.
CreateChecks(t) ==
    /\ pc[t] = "create_checks"
    /\ LET err == create_room_checks(active_rooms, frame[t].room_code)
           ret == [success |-> FALSE, error |-> err]
       IN  IF err # NoError
           THEN /\ Finish(t, frame[t], ret)
                /\ frame' = FramesAfter(t, ret, {})
                /\ saved' = 0
                /\ rooms_lock' = Free
           ELSE /\ SetPc(t, "create_insert")
                /\ UNCHANGED <<rooms_lock, result, saved, frame>>
    /\ UNCHANGED <<active_rooms, now, sink, users_lock, disk>>

\* active_rooms[room_code] = {...}; save_rooms(); return.
CreateInsert(t) ==
    /\ pc[t] = "create_insert"
    /\ LET f == frame[t]
           ret == [success |-> TRUE, room_code |-> f.room_code,
                   message |-> "Room created successfully"]
       IN  /\ active_rooms' = Put(active_rooms, f.room_code,
                                  new_room(f.player_name, f.host_info, now))
           /\ save_rooms
           /\ Finish(t, f, ret)
           /\ frame' = FramesAfter(t, ret, {})
    /\ rooms_lock' = Free
    /\ UNCHANGED <<now, sink, users_lock>>

\* The route close_room receives a request.
BeginClose(t, room_code) ==
    /\ pc[t] = "idle"
    /\ SetPc(t, "close_lock")
    /\ frame' = [frame EXCEPT ![t] = [op |-> "close_room", room_code |-> room_code]]
    /\ UNCHANGED <<active_rooms, now, sink, users_lock, disk, saved, result, rooms_lock>>

\* "with rooms_lock:" of close_room.
CloseAcquire(t) ==
    /\ pc[t] = "close_lock"
    /\ rooms_lock = Free
    /\ rooms_lock' = t
    /\ SetPc(t, "close_body")
    /\ UNCHANGED <<active_rooms, now, sink, users_lock, disk, saved, result, frame>>

\* The body of close_room.
CloseBody(t) ==
    /\ pc[t] = "close_body"
    /\ LET f == frame[t]
       IN  IF f.room_code \in DOMAIN active_rooms
           THEN /\ active_rooms' = Remove(active_rooms, {f.room_code})
                /\ save_rooms
                /\ Finish(t, f, [success |-> TRUE])
                /\ frame' = FramesAfter(t, [success |-> TRUE], {f.room_code})
           ELSE /\ UNCHANGED active_rooms
                /\ no_save
                /\ Finish(t, f, [success |-> FALSE, error |-> ErrNotFound])
                /\ frame' = FramesAfter(t, [success |-> FALSE, error |-> ErrNotFound], {})
    /\ rooms_lock' = Free
    /\ UNCHANGED <<now, sink, users_lock>>

\* The route update_room receives a request with a status that is not falsy.
BeginUpdate(t, room_code, status) ==
    /\ pc[t] = "idle"
    /\ status # ""
    /\ SetPc(t, "update_lock")
    /\ frame' = [frame EXCEPT ![t] = [op |-> "update_room_status",
                                      room_code |-> room_code, status |-> status]]
    /\ UNCHANGED <<active_rooms, now, sink, users_lock, disk, saved, result, rooms_lock>>

\* "with rooms_lock:" of update_room_status.
UpdateAcquire(t) ==
    /\ pc[t] = "update_lock"
    /\ rooms_lock = Free
    /\ rooms_lock' = t
    /\ SetPc(t, "update_body")
    /\ UNCHANGED <<active_rooms, now, sink, users_lock, disk, saved, result, frame>>

\* The body of update_room_status.
UpdateBody(t) ==
    /\ pc[t] = "update_body"
    /\ LET f == frame[t]
       IN  IF f.room_code \notin DOMAIN active_rooms
           THEN /\ UNCHANGED active_rooms
                /\ no_save
                /\ Finish(t, f, [success |-> FALSE, error |-> ErrNotFound])
                /\ frame' = FramesAfter(t, [success |-> FALSE, error |-> ErrNotFound], {})
           ELSE /\ active_rooms' = [active_rooms EXCEPT
                                      ![f.room_code].status = f.status,
                                      ![f.room_code].last_activity = now]
                /\ save_rooms
                /\ Finish(t, f, [success |-> TRUE])
                /\ frame' = FramesAfter(t, [success |-> TRUE], {})
    /\ rooms_lock' = Free
    /\ UNCHANGED <<now, sink, users_lock>>

\* The route list_rooms receives a request.
BeginList(t) ==
    /\ pc[t] = "idle"
    /\ SetPc(t, "list_lock")
    /\ frame' = [frame EXCEPT ![t] = [op |-> "list_rooms"]]
    /\ UNCHANGED <<active_rooms, now, sink, users_lock, disk, saved, result, rooms_lock>>

\* "with rooms_lock:" of list_rooms.
ListAcquire(t) ==
    /\ pc[t] = "list_lock"
    /\ rooms_lock = Free
    /\ rooms_lock' = t
    /\ SetPc(t, "list_body")
    /\ UNCHANGED <<active_rooms, now, sink, users_lock, disk, saved, result, frame>>

\* The body of list_rooms: "total" is len(active_rooms) now, "rooms" is the
\* dict active_rooms itself; leaving the with block frees the lock.
ListBody(t) ==
    /\ pc[t] = "list_body"
    /\ frame' = [frame EXCEPT ![t] = [op |-> "list_rooms",
                                      total |-> Cardinality(DOMAIN active_rooms)]]
    /\ rooms_lock' = Free
    /\ SetPc(t, "list_jsonify")
    /\ UNCHANGED <<active_rooms, now, sink, users_lock, disk, saved, result>>

\* jsonify(result) of the list_rooms route: the dict is read now.
ListRespond(t) ==
    /\ pc[t] = "list_jsonify"
    /\ LET ret == [success |-> TRUE, rooms |-> active_rooms, total |-> frame[t].total]
       IN  /\ result' = [op |-> "list_rooms", args |-> <<>>, ret |-> ret]
           /\ frame' = [frame EXCEPT ![t] = [op |-> "list_rooms", ret |-> ret]]
    /\ SetPc(t, "done")
    /\ UNCHANGED <<active_rooms, now, sink, users_lock, disk, saved, rooms_lock>>

\* time.sleep(60) of cleanup_task returns and cleanup_old_rooms is called.
BeginSweep ==
    /\ pc[Reaper] = "idle"
    /\ SetPc(Reaper, "sweep_lock")
    /\ frame' = [frame EXCEPT ![Reaper] = [op |-> "cleanup_old_rooms"]]
    /\ UNCHANGED <<active_rooms, now, sink, users_lock, disk, saved, result, rooms_lock>>

\* "with rooms_lock:" of cleanup_old_rooms.
SweepAcquire ==
    /\ pc[Reaper] = "sweep_lock"
    /\ rooms_lock = Free
    /\ rooms_lock' = Reaper
    /\ SetPc(Reaper, "sweep_scan")
    /\ UNCHANGED <<active_rooms, now, sink, users_lock, disk, saved, result, frame>>

\* now = datetime.now() and the first loop: to_remove is built.
SweepScan ==
    /\ pc[Reaper] = "sweep_scan"
    /\ frame' = [frame EXCEPT ![Reaper] = [op |-> "cleanup_old_rooms",
                                           to_remove |-> to_remove(active_rooms, now)]]
    /\ SetPc(Reaper, "sweep_delete")
    /\ UNCHANGED <<active_rooms, now, sink, users_lock, disk, saved, result, rooms_lock>>

\* The second loop, "del active_rooms[code]", the save and the return; a
\* code that is no longer a key raises KeyError, which leaves the with block
\* and is caught by cleanup_task.
SweepDelete ==
    /\ pc[Reaper] = "sweep_delete"
    /\ LET f == frame[Reaper]
           gone == f.to_remove
       IN  IF gone \subseteq DOMAIN active_rooms
           THEN /\ active_rooms' = Remove(active_rooms, gone)
                /\ IF gone # {} THEN save_rooms ELSE no_save
                /\ Finish(Reaper, f, [removed |-> Cardinality(gone)])
                /\ frame' = FramesAfter(Reaper, [removed |-> Cardinality(gone)], gone)
           ELSE \E before \in SUBSET (gone \cap DOMAIN active_rooms) :
                    \* the codes deleted before the one that raised
                    /\ active_rooms' = Remove(active_rooms, before)
                    /\ no_save
                    /\ Finish(Reaper, f, [raised |-> "KeyError"])
                    /\ frame' = FramesAfter(Reaper, [raised |-> "KeyError"], before)
    /\ rooms_lock' = Free
    /\ UNCHANGED <<now, sink, users_lock>>

\* The registry after CreateRoom("ABCD", "Alice", host) at time 0, one second
\* later, with no request in flight.
InitThreads ==
    /\ \E host_info \in HostInfos :
           active_rooms = Put(EmptyRooms, "ABCD", new_room("Alice", host_info, 0))
    /\ now = 1
    /\ disk = [exists |-> TRUE, rooms |-> active_rooms]
    /\ saved = 1
    /\ result = [op |-> "load_rooms", args |-> <<>>, ret |-> 0]
    /\ threads_idle
    /\ sink = "ok"

NextThreads ==
    \E t \in Threads :
        \/ \E room_code \in Codes, player_name \in Names : BeginJoin(t, room_code, player_name)
        \/ TrackAcquire(t)
        \/ TrackBody(t)
        \/ JoinAcquire(t)
        \/ JoinChecks(t)
        \/ JoinAppend(t)
        \/ JoinStamp(t)
        \/ JoinStatus(t)
        \/ JoinSave(t)
        \/ JoinReturn(t)
        \/ JoinRespond(t)
        \/ \E room_code \in Codes : BeginGet(t, room_code)
        \/ GetAcquire(t)
        \/ GetLookup(t)
        \/ GetReadPlayers(t)
        \/ GetReadStatus(t)
        \/ GetRespond(t)
        \/ BeginList(t)
        \/ ListAcquire(t)
        \/ ListBody(t)
        \/ ListRespond(t)

SpecThreads == InitThreads /\ [][NextThreads]_vars

\* ------------------------------------ every handler and one sweep at once

\* The code all the requests of SpecHandlers name.
HandlerCodes == {"ABCD"}

\* Either no room, or the room "ABCD" created by "Alice" at time 0; the
\* clock reads one second later, or the first instant at which that room is
\* older than ROOM_TIMEOUT.
InitHandlers ==
    /\ \E host_info \in HostInfos :
           active_rooms \in {EmptyRooms,
                             Put(EmptyRooms, "ABCD", new_room("Alice", host_info, 0))}
    /\ now \in Times \ {0}
    /\ disk = json_dump(active_rooms)
    /\ saved = 0
    /\ result = [op |-> "load_rooms", args |-> <<>>, ret |-> 0]
    /\ threads_idle
    /\ sink \in Sinks

\* A step of request thread t.
HandlerStep(t) ==
    \/ \E room_code \in HandlerCodes, player_name \in Names :
           BeginJoin(t, room_code, player_name)
    \/ \E room_code \in HandlerCodes, player_name \in Names, host_info \in HostInfos :
           BeginCreate(t, room_code, player_name, host_info)
    \/ \E room_code \in HandlerCodes : BeginClose(t, room_code)
    \/ \E room_code \in HandlerCodes : BeginUpdate(t, room_code, "completed")
    \/ \E room_code \in HandlerCodes : BeginGet(t, room_code)
    \/ BeginList(t)
    \/ TrackAcquire(t)
    \/ TrackBody(t)
    \/ JoinAcquire(t)
    \/ JoinChecks(t)
    \/ JoinAppend(t)
    \/ JoinStamp(t)
    \/ JoinStatus(t)
    \/ JoinSave(t)
    \/ JoinReturn(t)
    \/ JoinRespond(t)
    \/ CreateAcquire(t)
    \/ CreateChecks(t)
    \/ CreateInsert(t)
    \/ CloseAcquire(t)
    \/ CloseBody(t)
    \/ UpdateAcquire(t)
    \/ UpdateBody(t)
    \/ GetAcquire(t)
    \/ GetLookup(t)
    \/ GetReadPlayers(t)
    \/ GetReadStatus(t)
    \/ GetRespond(t)
    \/ ListAcquire(t)
    \/ ListBody(t)
    \/ ListRespond(t)

\* A step of the one pass of cleanup_task that is followed.
SweepStep ==
    \/ BeginSweep
    \/ SweepAcquire
    \/ SweepScan
    \/ SweepDelete

NextHandlers == (\E t \in Threads : HandlerStep(t)) \/ SweepStep

SpecHandlers == InitHandlers /\ [][NextHandlers]_vars

\* Every thread that can take a step eventually takes one.
SpecHandlersFair ==
    /\ SpecHandlers
    /\ \A t \in Threads : WF_vars(HandlerStep(t))
    /\ WF_vars(SweepStep)

\* ------------------------------------------- failing writes and restarts

\* The host's file system starts or stops taking writes.
sink_changes ==
    /\ \E s \in Sinks : s # sink /\ sink' = s
    /\ UNCHANGED <<active_rooms, now, disk, saved, result, rooms_lock, pc, frame,
                   users_lock>>

\* The process dies between two calls and is started again:
\* RoomManager.__init__ runs load_rooms().
restart ==
    /\ active_rooms' = load_rooms(disk)
    /\ result' = [op |-> "load_rooms", args |-> <<>>,
                  ret |-> Cardinality(DOMAIN load_rooms(disk))]
    /\ saved' = 0
    /\ UNCHANGED <<now, disk>>
    /\ whole_call

\* The process dies inside the save_rooms() of a mutating call that has not
\* answered yet, after open(ROOMS_FILE, 'w') truncated the file and before
\* json.dump wrote all of it, and is started again.
restart_in_save ==
    /\ sink # "denied"
    /\ disk' = torn_file
    /\ active_rooms' = load_rooms(torn_file)
    /\ result' = [op |-> "load_rooms", args |-> <<>>,
                  ret |-> Cardinality(DOMAIN load_rooms(torn_file))]
    /\ saved' = 0
    /\ UNCHANGED now
    /\ whole_call

\* One room code is enough to lose an update.
CrashCodes == {"ABCD"}

NextCrash ==
    \/ \E room_code \in CrashCodes, player_name \in Names, host_info \in HostInfos :
           create_room(room_code, player_name, host_info)
    \/ \E room_code \in CrashCodes, player_name \in Names :
           join_room(room_code, player_name)
    \/ \E room_code \in CrashCodes : update_room(room_code, "completed")
    \/ \E room_code \in CrashCodes : close_room(room_code)
    \/ sink_changes
    \/ restart
    \/ restart_in_save

SpecCrash == Init /\ [][NextCrash]_vars

\* --------------------------------------------- more codes than MAX_ROOMS

\* One code more than the registry can hold, so that a full registry meets a
\* code it does not hold.
CapacityCodes == Codes \cup {"QRST"}

NextCapacity ==
    \/ \E room_code \in CapacityCodes, player_name \in Names, host_info \in HostInfos :
           create_room(room_code, player_name, host_info)
    \/ \E room_code \in CapacityCodes, player_name \in Names :
           join_room(room_code, player_name)
    \/ \E room_code \in CapacityCodes : close_room(room_code)
    \/ cleanup_old_rooms
    \/ Tick

SpecCapacity == Init /\ [][NextCapacity]_vars

\* ------------------------------------------------------------ cleanup_task

\* cleanup_task with the try around the while loop: the first exception
\* ends the thread.
after_sweep_error_exit == "exited"

\* Where cleanup_task goes after its except clause: back to the top of
\* "while True", into time.sleep(60).
after_sweep_error == "idle"

\* One pass of the loop of cleanup_task whose cleanup_old_rooms() returns.
cleanup_task_sweep ==
    /\ pc[Reaper] = "idle"
    /\ cleanup_old_rooms

\* One pass of the loop whose try block raises before any room is deleted
\* (the lock is released by the with statement): the except clause logs it.
cleanup_task_error ==
    /\ pc[Reaper] = "idle"
    /\ pc' = [pc EXCEPT ![Reaper] = after_sweep_error]
    /\ frame' = [frame EXCEPT ![Reaper] = [op |-> "cleanup_task", caught |-> TRUE]]
    /\ result' = [op |-> "cleanup_task", args |-> [now |-> now],
                  ret |-> "Cleanup task error"]
    /\ no_save
    /\ UNCHANGED <<active_rooms, now, rooms_lock, sink, users_lock>>

NextReaper ==
    \/ \E room_code \in Codes, player_name \in Names, host_info \in HostInfos :
           create_room(room_code, player_name, host_info)
    \/ \E room_code \in Codes, player_name \in Names : join_room(room_code, player_name)
    \/ \E room_code \in Codes : update_room(room_code, "in_progress")
    \/ \E room_code \in Codes : close_room(room_code)
    \/ cleanup_task_sweep
    \/ cleanup_task_error
    \/ Tick

\* The loop of cleanup_task never ends and the clock moves: a sweep that
\* returns and the next reading of the clock both keep coming.
SpecReaper ==
    /\ Init
    /\ [][NextReaper]_vars
    /\ WF_vars(cleanup_task_sweep)
    /\ WF_vars(Tick)

\* ================================================================== claims

Recognized == {"waiting", "in_progress", "completed"}

Fail(err) == [success |-> FALSE, error |-> err]

\* Some call of the named operation is this step.
CreateStep == \E c \in Codes, n \in Names, h \in HostInfos : create_room(c, n, h)
JoinStep == \E c \in Codes, n \in Names : join_room(c, n)
CloseStep == \E c \in Codes : close_room(c)

\* ---- C1

\* C1 as stated: a create_room call whose code is already registered returns
\* "Room code already exists" and leaves the registry as it was.
C1_DuplicateReturnsConflict ==
    [][\A c \in Codes, n \in Names, h \in HostInfos :
          (c \in DOMAIN active_rooms /\ create_room(c, n, h))
              => /\ result'.ret = Fail(ErrConflict)
                 /\ active_rooms' = active_rooms]_vars

\* C1 amended: a create_room call whose code is already registered fails and
\* leaves every room (the registered one included) as it was; the error is
\* "Room code already exists" while the registry holds fewer than MAX_ROOMS
\* rooms and "Server at maximum capacity" once it holds MAX_ROOMS.
C1_DuplicateRejected ==
    [][\A c \in Codes, n \in Names, h \in HostInfos :
          (c \in DOMAIN active_rooms /\ create_room(c, n, h))
              => /\ result'.ret =
                       Fail(IF Cardinality(DOMAIN active_rooms) < MAX_ROOMS
                            THEN ErrConflict ELSE ErrCapacity)
                 /\ active_rooms' = active_rooms]_vars

\* A second player tried to create a room under a live code, was told the
\* code exists, and the room still belongs to its first host.
C1_Witness ==
    /\ result.op = "create_room"
    /\ result.ret = Fail(ErrConflict)
    /\ result.args.room_code \in DOMAIN active_rooms
    /\ active_rooms[result.args.room_code].host.name # result.args.player_name
    /\ active_rooms[result.args.room_code].status = "in_progress"

\* ---- C2

\* C2 as stated: every join_room call on a room that holds
\* MAX_PLAYERS_PER_ROOM players returns "Room is full" and adds no player.
C2_FullRoomReturnsRoomFull ==
    [][\A c \in Codes, n \in Names :
          (/\ c \in DOMAIN active_rooms
           /\ Len(active_rooms[c].players) >= MAX_PLAYERS_PER_ROOM
           /\ join_room(c, n))
              => /\ result'.ret = Fail(ErrFull)
                 /\ active_rooms' = active_rooms]_vars

\* C2 amended: the join that brings a room to MAX_PLAYERS_PER_ROOM players
\* leaves its status in_progress, and every join_room call on a room holding
\* MAX_PLAYERS_PER_ROOM players fails and adds no player: with "Room is not
\* accepting players" while the status is not waiting, with "Room is full"
\* only when the status has been set back to waiting.
C2_FullRoomRejectsJoin ==
    [][\A c \in Codes, n \in Names :
          /\ (/\ c \in DOMAIN active_rooms
              /\ Len(active_rooms[c].players) >= MAX_PLAYERS_PER_ROOM
              /\ join_room(c, n))
                 => /\ result'.ret =
                          Fail(IF active_rooms[c].status = "waiting"
                               THEN ErrFull ELSE ErrNotAccepting)
                    /\ active_rooms' = active_rooms
          /\ (/\ join_room(c, n)
              /\ result'.ret.success
              /\ Len(active_rooms'[c].players) >= MAX_PLAYERS_PER_ROOM)
                 => active_rooms'[c].status = "in_progress"]_vars

\* A third player was turned away from a full room whose game is running.
C2_Witness ==
    /\ result.op = "join_room"
    /\ result.ret = Fail(ErrNotAccepting)
    /\ result.args.room_code \in DOMAIN active_rooms
    /\ Len(active_rooms[result.args.room_code].players) = MAX_PLAYERS_PER_ROOM
    /\ active_rooms[result.args.room_code].status = "in_progress"

\* ---- C3

\* C3: no live room holds more players than its max_players.
C3_PlayersWithinCapacity ==
    \A c \in DOMAIN active_rooms :
        Len(active_rooms[c].players) <= active_rooms[c].max_players

\* A full room was set back to waiting and a join was then attempted on it.
C3_Witness ==
    /\ result.op = "join_room"
    /\ result.ret = Fail(ErrFull)
    /\ result.args.room_code \in DOMAIN active_rooms
    /\ active_rooms[result.args.room_code].status = "waiting"
    /\ Len(active_rooms[result.args.room_code].players)
           = active_rooms[result.args.room_code].max_players

\* ---- C4

\* C4: no live room lists the same name twice.
C4_PlayersDistinct ==
    \A c \in DOMAIN active_rooms :
        \A i, j \in 1..Len(active_rooms[c].players) :
            active_rooms[c].players[i] = active_rooms[c].players[j] => i = j

\* A player joined under the host's name and was renamed.
C4_Witness ==
    /\ result.op = "join_room"
    /\ result.ret.success
    /\ result.ret.name_changed
    /\ active_rooms[result.args.room_code].host.name = result.args.player_name
    /\ Len(active_rooms[result.args.room_code].players) = 2

\* ---- C5

\* The rooms a sweep at the current time has to remove, as C5 words it.
Overdue == {c \in DOMAIN active_rooms : now - active_rooms[c].last_activity > ROOM_TIMEOUT}

\* C5: a sweep removes exactly the rooms with now - last_activity >
\* ROOM_TIMEOUT, keeps every other room as it was and returns the number
\* removed; a get_room_info or list_rooms call shows exactly the live rooms,
\* so a removed room is in none of their results.
C5_ReapExact ==
    [][/\ cleanup_old_rooms =>
              /\ DOMAIN active_rooms' = (DOMAIN active_rooms) \ Overdue
              /\ \A c \in DOMAIN active_rooms' : active_rooms'[c] = active_rooms[c]
              /\ result'.ret = Cardinality(Overdue)
       /\ \A c \in Codes :
              (get_room_info(c) /\ c \notin DOMAIN active_rooms)
                  => result'.ret = Fail(ErrNotFound)
       /\ list_rooms => DOMAIN result'.ret.rooms = DOMAIN active_rooms]_vars

\* A sweep removed one room and kept a room that is exactly ROOM_TIMEOUT old.
C5_Witness ==
    /\ result.op = "cleanup_old_rooms"
    /\ result.ret = 1
    /\ result.args.now = now
    /\ \E c \in DOMAIN active_rooms : now - active_rooms[c].last_activity = ROOM_TIMEOUT

\* ---- C6

\* The failure C6 names for a join_room call, NoError when it names none.
C6_Expected(c) ==
    IF c \notin DOMAIN active_rooms THEN ErrNotFound
    ELSE IF active_rooms[c].status # "waiting" THEN ErrNotAccepting
    ELSE IF Len(active_rooms[c].players) >= active_rooms[c].max_players THEN ErrFull
    ELSE NoError

\* C6: join_room returns "Room not found" for an absent code, "Room is not
\* accepting players" for a room whose status is not waiting, "Room is full"
\* for a waiting room at capacity; each of these leaves the registry and the
\* snapshot file as they were and calls save_rooms zero times.
C6_JoinFailures ==
    [][\A c \in Codes, n \in Names :
          (join_room(c, n) /\ C6_Expected(c) # NoError)
              => /\ result'.ret = Fail(C6_Expected(c))
                 /\ active_rooms' = active_rooms
                 /\ disk' = disk
                 /\ saved' = 0]_vars

\* A join was refused on a room that is completed with a free slot.
C6_Witness ==
    /\ result.op = "join_room"
    /\ result.ret = Fail(ErrNotAccepting)
    /\ result.args.room_code \in DOMAIN active_rooms
    /\ active_rooms[result.args.room_code].status = "completed"
    /\ Len(active_rooms[result.args.room_code].players) = 1
    /\ saved = 0
    /\ disk.rooms = active_rooms

\* ---- C9

StatusRank(s) == CASE s = "waiting" -> 0 [] s = "in_progress" -> 1 [] s = "completed" -> 2

\* The status did not move to a lower value (a value outside the ordering
\* may only stay).
NotLowered(old, new) ==
    \/ new = old
    \/ /\ old \in Recognized
       /\ new \in Recognized
       /\ StatusRank(new) > StatusRank(old)

\* C9: a step of create_room, join_room, close_room or cleanup_old_rooms
\* never moves the status of a room that is live before and after it to a
\* lower value under waiting < in_progress < completed.
C9_StatusMonotonic ==
    [][(CreateStep \/ JoinStep \/ CloseStep \/ cleanup_old_rooms)
          => \A c \in (DOMAIN active_rooms) \cap (DOMAIN active_rooms') :
                 NotLowered(active_rooms[c].status, active_rooms'[c].status)]_vars

\* A join moved its room forward while another room stayed completed.
C9_Witness ==
    /\ result.op = "join_room"
    /\ result.ret.success
    /\ result.ret.status = "in_progress"
    /\ \E c \in DOMAIN active_rooms :
           c # result.args.room_code /\ active_rooms[c].status = "completed"

\* ---- C10

\* C10: the status of every live room is waiting, in_progress or completed.
C10_StatusRecognized ==
    \A c \in DOMAIN active_rooms : active_rooms[c].status \in Recognized

\* ---- C8

\* C8: a join_room call that gets past the three checks on a roster of fewer
\* than SUFFIX_LIMIT names succeeds and appends a name that was not in the roster; the
\* requested name itself if that was not in the roster; and name_changed
\* tells whether the appended name differs from the requested one.
C8_NameResolution ==
    [][\A c \in Codes, n \in NamePool :
          (/\ C6_Expected(c) = NoError
           /\ Len(active_rooms[c].players) < SUFFIX_LIMIT
           /\ join_room(c, n))
              => /\ result'.ret.success
                 /\ LET roster == active_rooms[c].players
                        final == result'.ret.player_name
                    IN  /\ ~InList(final, roster)
                        /\ ~InList(n, roster) => final = n
                        /\ result'.ret.name_changed <=> (final # n)
                        /\ active_rooms'[c].players = Append(roster, final)]_vars

\* "Alice" joined a roster of SUFFIX_LIMIT - 1 names that holds "Alice" and
\* every "Alice_k" up to k = SUFFIX_LIMIT - 2, and got the last suffix tried.
C8_Witness ==
    /\ result.op = "join_room"
    /\ result.ret.success
    /\ result.args.player_name = "Alice"
    /\ result.ret.name_changed
    /\ result.ret.player_name = "Alice" \o "_" \o ToString(SUFFIX_LIMIT - 1)
    /\ Len(result.ret.players) = SUFFIX_LIMIT

\* ---- C7

\* C7: a join appends the player and starts the game as one step: the status
\* a join returns is in_progress exactly when the players it returns fill the
\* room, and no response to a get_room shows the room with all its players
\* and the status still waiting.
C7_JoinAtomic ==
    /\ (result.op = "join_room" /\ result.ret.success)
           => (result.ret.status = "in_progress"
                  <=> Len(result.ret.players) >= MAX_PLAYERS_PER_ROOM)
    /\ (result.op = "get_room" /\ result.ret.success)
           => ~(/\ Len(result.ret.room.players) >= MAX_PLAYERS_PER_ROOM
                /\ result.ret.room.status = "waiting")

\* ---- C11

\* This step is a call of one of the named operations: every call records
\* itself in result, and Tick, the one step that calls nothing, moves the
\* clock.
Called(ops) == now' = now /\ result'.op \in ops

MutationOps == {"create_room", "join_room", "update_room", "update_room_status",
                "close_room"}

\* This step called save_rooms() once, after the mutation: ROOMS_FILE holds
\* the registry the step leaves.
WroteOnce == saved' = 1 /\ disk' = json_dump(active_rooms')

\* This step changed neither the registry nor ROOMS_FILE.
WroteNothing == saved' = 0 /\ disk' = disk /\ active_rooms' = active_rooms

\* C11: every successful create, join, status update and close, and every
\* sweep that removes a room, writes the whole registry once, after its
\* mutation and inside the call; a failed operation, a read and a sweep that
\* removes nothing write nothing and change nothing; so, with writes that
\* succeed, ROOMS_FILE (once written) always holds the in-memory registry
\* between two calls.
C11_OneWritePerMutation ==
    /\ [](disk.exists => disk = json_dump(active_rooms))
    /\ [][/\ Called(MutationOps)
                => IF result'.ret.success THEN WroteOnce ELSE WroteNothing
          /\ Called({"cleanup_old_rooms"})
                => IF result'.ret > 0 THEN WroteOnce ELSE WroteNothing
          /\ Called({"get_room_info", "list_rooms"}) => WroteNothing]_vars

\* A sweep removed one room of two and wrote the registry it left: the file
\* holds the surviving room only.
C11_Witness ==
    /\ result.op = "cleanup_old_rooms"
    /\ result.ret = 1
    /\ saved = 1
    /\ Cardinality(DOMAIN active_rooms) = 1
    /\ disk = json_dump(active_rooms)

\* ---- C12

\* C12: every mutation a caller was told succeeded is in ROOMS_FILE: a
\* process that dies at any point after the response and is started again
\* loads a registry that holds all acknowledged updates; between two calls
\* every update of the registry has been acknowledged, so the registry loaded
\* by a restart is the registry the process had.
C12_AcknowledgedSurvivesRestart ==
    [][result'.op = "load_rooms" => active_rooms' = active_rooms]_vars

\* ---- C15

\* C15: the registry never holds more than MAX_ROOMS rooms; a create_room
\* call on a registry of MAX_ROOMS rooms returns "Server at maximum capacity"
\* and inserts nothing, and a create_room call with an unregistered code on a
\* registry of fewer rooms succeeds and inserts exactly that code.
C15_CapacityBound ==
    /\ [](Cardinality(DOMAIN active_rooms) <= MAX_ROOMS)
    /\ [][Called({"create_room"})
            => LET c == result'.args.room_code
               IN  IF Cardinality(DOMAIN active_rooms) >= MAX_ROOMS
                   THEN /\ result'.ret = Fail(ErrCapacity)
                        /\ active_rooms' = active_rooms
                   ELSE c \notin DOMAIN active_rooms
                           => /\ result'.ret.success
                              /\ DOMAIN active_rooms' = DOMAIN active_rooms \cup {c}
                              /\ \A d \in DOMAIN active_rooms :
                                     active_rooms'[d] = active_rooms[d]]_vars

\* A registry of MAX_ROOMS rooms turned down a code it does not hold.
C15_Witness ==
    /\ result.op = "create_room"
    /\ result.ret = Fail(ErrCapacity)
    /\ result.args.room_code \notin DOMAIN active_rooms
    /\ Cardinality(DOMAIN active_rooms) = MAX_ROOMS

\* ---- C18

\* name with the suffix _k
Suffixed(name, k) == name \o "_" \o ToString(k)

\* The suffixes k of 1..last for which name_k is not in the roster.
FreeSuffixes(roster, name, last) == {k \in 1..last : ~InList(Suffixed(name, k), roster)}

\* A successful join whose requested name is in the roster gets the name
\* with the smallest free suffix of 1..last, and a name with a random token
\* exactly when no suffix of 1..last is free.
ResolvesWithin(last) ==
    (result'.op = "join_room" /\ result'.ret.success)
        => LET c == result'.args.room_code
               n == result'.args.player_name
               roster == active_rooms[c].players
               free == FreeSuffixes(roster, n, last)
               final == result'.ret.player_name
           IN  InList(n, roster)
                   => IF free # {}
                      THEN final = Suffixed(n, CHOOSE k \in free : \A j \in free : k <= j)
                      ELSE final \in {n \o "_" \o h : h \in HexTokens}

\* C18 as stated: the smallest free suffix of 1..100 is used, and the random
\* token only when none of _1 .. _100 is free.
C18_SmallestOfHundred == [][ResolvesWithin(SUFFIX_LIMIT)]_vars

\* C18 amended: the smallest free suffix of 1..99 is used, and the random
\* token exactly when none of _1 .. _99 is free; _100 is never returned.
C18_SmallestOfNinetyNine == [][ResolvesWithin(SUFFIX_LIMIT - 1)]_vars

\* "Alice" joined a roster that holds "Alice" and "Alice_1" .. "Alice_99" but
\* not "Alice_100", and was given a random token.
C18_Witness ==
    /\ result.op = "join_room"
    /\ result.ret.success
    /\ result.args.player_name = "Alice"
    /\ Len(result.ret.players) = SUFFIX_LIMIT + 1
    /\ ~InList(Suffixed("Alice", SUFFIX_LIMIT), result.ret.players)
    /\ result.ret.player_name \in {"Alice" \o "_" \o h : h \in HexTokens}

\* ---- C19

\* The fields a room keeps from its creation are the same before and after
\* this step, and its players are kept in order at the front of the list.
KeepsCreation(c) ==
    /\ active_rooms'[c].host = active_rooms[c].host
    /\ active_rooms'[c].created_at = active_rooms[c].created_at
    /\ active_rooms'[c].max_players = active_rooms[c].max_players
    /\ Len(active_rooms'[c].players) >= Len(active_rooms[c].players)
    /\ SubSeq(active_rooms'[c].players, 1, Len(active_rooms[c].players))
           = active_rooms[c].players

\* C19: a room is inserted with the host record, the creation time and the
\* capacity of its create_room call and with the host as its only player;
\* while it lives no step changes its host, created_at or max_players or its
\* earlier players, so players[0] is always the host's name; a join_room or
\* update_room_status call adds or removes no room and leaves every room
\* other than its target as it was, a join only appends one name, and a
\* status update leaves the players alone.
C19_CreationFieldsFrozen ==
    /\ [](\A c \in DOMAIN active_rooms :
              /\ active_rooms[c].players[1] = active_rooms[c].host.name
              /\ active_rooms[c].max_players = MAX_PLAYERS_PER_ROOM)
    /\ [][/\ \A c \in DOMAIN active_rooms \cap DOMAIN active_rooms' : KeepsCreation(c)
          /\ (Called({"create_room"}) /\ result'.ret.success)
                => active_rooms'[result'.args.room_code]
                       = new_room(result'.args.player_name, result'.args.host_info, now)
          /\ Called({"join_room", "update_room_status"})
                => /\ DOMAIN active_rooms' = DOMAIN active_rooms
                   /\ \A d \in DOMAIN active_rooms \ {result'.args.room_code} :
                          active_rooms'[d] = active_rooms[d]
          /\ (Called({"join_room"}) /\ result'.ret.success)
                => LET c == result'.args.room_code
                   IN  active_rooms'[c].players
                           = Append(active_rooms[c].players, result'.ret.player_name)
          /\ (Called({"update_room_status"}) /\ result'.ret.success)
                => LET c == result'.args.room_code
                   IN  active_rooms'[c].players = active_rooms[c].players]_vars

\* Bob joined Alice's room after the clock had moved and the room was then
\* marked completed: the host, the creation time and the first player are
\* still those of the creation.
C19_Witness ==
    /\ result.op = "update_room_status"
    /\ result.ret.success
    /\ LET room == active_rooms[result.args.room_code]
       IN  /\ room.status = "completed"
           /\ room.players = <<"Alice", "Bob">>
           /\ room.host.name = "Alice"
           /\ room.created_at = 0
           /\ room.last_activity > 0

\* ---- C16

\* The stamps whose timeout ends before the last reading of the clock.
DueStamps == {t \in Times : \E u \in Times : u - t > ROOM_TIMEOUT}

\* C16: with cleanup_task looping and the clock moving, a live room whose
\* last_activity is a stamp the clock will outrun is eventually removed or
\* stamped anew, whatever sweeps fail in between.
C16_IdleRoomEventuallyRemoved ==
    \A c \in Codes, t \in DueStamps :
        (c \in DOMAIN active_rooms /\ active_rooms[c].last_activity = t)
            ~> (c \notin DOMAIN active_rooms \/ active_rooms[c].last_activity # t)

\* A sweep failed, cleanup_task went on, and a later sweep removed a room.
C16_Witness ==
    /\ frame[Reaper] # NoFrame
    /\ pc[Reaper] = "idle"
    /\ result.op = "cleanup_old_rooms"
    /\ result.ret = 1

\* ---- C13

\* Both request threads have answered a call of the named operation and
\* cleanup_task has not swept.
BothDone(op) ==
    /\ \A t \in Threads : pc[t] = "done" /\ frame[t].op = op
    /\ pc[Reaper] = "idle"

\* The room of InitHandlers: "ABCD" as create_room("ABCD", "Alice") at time 0
\* left it, waiting, with one free slot.
FirstRoom(host_info) == new_room("Alice", host_info, 0)

\* C13: two join_room calls that race for the one free slot of a waiting
\* room end as if one had run after the other: one succeeds, the room is
\* the room that join alone leaves, and the other returns the error a join
\* gets on that room; two create_room calls that race for one unregistered
\* code end with one success, the room of the winner, and "Room code already
\* exists" for the other.
C13_Linearizable ==
    /\ (BothDone("join_room") /\ "ABCD" \in DOMAIN active_rooms)
           => \E t, u \in Threads, host_info \in HostInfos :
                  /\ t # u
                  /\ frame[t].ret.success
                  /\ frame[t].ret.player_name
                         \in resolve_name(FirstRoom(host_info).players, frame[t].player_name)
                  /\ active_rooms["ABCD"]
                         = joined_room(FirstRoom(host_info), frame[t].ret.player_name, now)
                  /\ frame[u].ret = Fail(join_room_checks(active_rooms, "ABCD"))
                  /\ frame[u].ret.error # NoError
    /\ (BothDone("create_room") /\ \E t \in Threads : frame[t].ret.success)
           => \E t, u \in Threads :
                  /\ t # u
                  /\ frame[t].ret.success
                  /\ active_rooms = Put(EmptyRooms, "ABCD",
                                        new_room(frame[t].player_name,
                                                 frame[t].host_info, now))
                  /\ frame[u].ret = Fail(ErrConflict)
    /\ BothDone("create_room") => "ABCD" \in DOMAIN active_rooms

\* Two joins raced for the free slot of "ABCD": the first thread got it and
\* the second was told the room no longer accepts players.
C13_Witness ==
    /\ BothDone("join_room")
    /\ frame["t1"].ret.success
    /\ frame["t2"].ret = Fail(ErrNotAccepting)
    /\ Len(active_rooms["ABCD"].players) = MAX_PLAYERS_PER_ROOM

\* ---- C14

\* C14: what get_room_info, join_room and list_rooms hand to their caller is
\* a snapshot: from the return of the call (the lock is free again) until
\* the route has built its response, no step of another thread changes the
\* room the get_room route holds, the player list the join_room route holds
\* or the room collection the list_rooms route holds.
C14_ResultsAreSnapshots ==
    [][\A t \in Threads :
          /\ (pc[t] = "get_jsonify" /\ pc'[t] = "get_jsonify")
                => Deref(t)' = Deref(t)
          /\ (pc[t] = "join_jsonify" /\ pc'[t] = "join_jsonify")
                => Deref(t)'.players = Deref(t).players
          /\ (pc[t] = "list_jsonify" /\ pc'[t] = "list_jsonify")
                => active_rooms' = active_rooms]_vars

\* ---- C17

\* Thread t returns from its RoomManager call in this step.
Returns(t, op) == pc[t] # "done" /\ pc'[t] = "done" /\ frame'[t].op = op

\* The join_room call of thread t has succeeded and returned.
JoinSucceeded(t) ==
    /\ frame[t].op = "join_room"
    /\ \/ pc[t] = "join_jsonify"
       \/ pc[t] = "done" /\ frame[t].ret.success

\* C17: a sweep that runs beside close_room, join_room and create_room calls
\* on the same code removes each room at most once and never fails on a room
\* that is gone: a close_room call removes its room and succeeds exactly when
\* the room is still registered and returns "Room not found" otherwise; a
\* join_room call on a code that is no longer registered returns "Room not
\* found"; the sweep deletes exactly the registered rooms that are older
\* than ROOM_TIMEOUT when it runs, skipping what a close_room removed before
\* it; and it leaves the room of a join_room call that has returned (the
\* clock has not moved since).
C17_SweepBesideCalls ==
    [][/\ \A t \in Threads :
             Returns(t, "close_room")
                 => LET c == frame[t].room_code
                    IN  IF c \in DOMAIN active_rooms
                        THEN /\ frame'[t].ret = [success |-> TRUE]
                             /\ active_rooms' = Remove(active_rooms, {c})
                        ELSE /\ frame'[t].ret = Fail(ErrNotFound)
                             /\ active_rooms' = active_rooms
       /\ \A t \in Threads :
             (Returns(t, "join_room") /\ pc[t] = "join_checks"
                  /\ frame[t].room_code \notin DOMAIN active_rooms)
                 => /\ frame'[t].ret = Fail(ErrNotFound)
                    /\ active_rooms' = active_rooms
       /\ Returns(Reaper, "cleanup_old_rooms")
             => LET gone == to_remove(active_rooms, now)
                IN  /\ frame'[Reaper].ret = [removed |-> Cardinality(gone)]
                    /\ active_rooms' = Remove(active_rooms, gone)
                    /\ \A t \in Threads :
                           JoinSucceeded(t) => frame[t].room_code \notin gone]_vars

\* The sweep removed the overdue room "ABCD" first; the close_room call that
\* came after it was told the room is not there.
C17_Witness ==
    /\ pc[Reaper] = "done"
    /\ frame[Reaper].ret = [removed |-> 1]
    /\ result.op = "close_room"
    /\ result.ret = Fail(ErrNotFound)
    /\ "ABCD" \notin DOMAIN active_rooms

\* ---- C20

\* C20: no thread ever holds rooms_lock and users_lock together, or waits
\* for one of them while it holds the other; and with every thread
\* scheduled, every request and the sweep, once started, returns with both
\* locks released, whatever the checks decide and whether or not ROOMS_FILE
\* takes the write.
C20_CallsReturnAndFreeTheLocks ==
    /\ [](\A t \in AllThreads :
             /\ ~(rooms_lock = t /\ users_lock = t)
             /\ pc[t] \in {"join_lock", "create_lock", "close_lock", "update_lock",
                           "get_lock", "list_lock", "sweep_lock"} => users_lock # t
             /\ pc[t] = "track_lock" => rooms_lock # t
             /\ pc[t] \in {"idle", "done"} => (rooms_lock # t /\ users_lock # t))
    /\ \A t \in AllThreads :
           (pc[t] # "idle") ~> (pc[t] = "done" /\ rooms_lock # t /\ users_lock # t)

\* ROOMS_FILE refused the write of a create_room call, the call still
\* answered success, and every thread has returned with both locks free.
C20_Witness ==
    /\ \A t \in AllThreads : pc[t] = "done"
    /\ rooms_lock = Free
    /\ users_lock = Free
    /\ sink = "denied"
    /\ \E t \in Threads : frame[t].op = "create_room" /\ frame[t].ret.success
    /\ \E t \in Threads : frame[t].op = "join_room" /\ ~frame[t].ret.success

====
